---- MODULE Spec2Model ----
(***************************************************************************)
(* Audio assessment gateway (server.js): one endpoint, POST                *)
(* /api/assessment, that stores an uploaded audio file, transcribes it,    *)
(* asks a generation service for structured feedback, deletes the file and *)
(* answers.  Both external calls go through retryOperation.                *)
(*                                                                         *)
(* A request advances in the atomic segments of the single-threaded event  *)
(* loop: everything between two awaits is one action.                      *)
(***************************************************************************)
EXTENDS Integers, Sequences, FiniteSets, TLC

(***************************************************************************)
(* Bounds of the model.                                                    *)
(***************************************************************************)
\* largest maxRetries argument tried when retryOperation is called directly
MaxAttempts == 4

\* requests that can be in flight together
Reqs == {"r1", "r2"}

\* file names the upload layer's filename callback can produce
Names == {"audio-1-1.mp3", "audio-1-2.mp3"}

(***************************************************************************)
(* Program constants.                                                      *)
(***************************************************************************)
\* retryOperation: default of the maxRetries parameter and the value the
\* handler passes for both steps
DefaultMaxRetries == 3

\* retryOperation: base unit of the backoff wait, in ms
BaseDelay == 1000

\* upload.limits.fileSize default, 10 * 1024 * 1024
DefaultMaxFileSize == 10485760

NoFile == "undefined"
Absent == "absent"

(***************************************************************************)
(* Strings.                                                                *)
(***************************************************************************)
\* String.prototype.includes
Includes(s, pat) ==
  \E i \in 1..(Len(s) - Len(pat) + 1) : SubSeq(s, i, i + Len(pat) - 1) = pat

\* String.prototype.startsWith
StartsWith(s, pat) ==
  Len(s) >= Len(pat) /\ SubSeq(s, 1, Len(pat)) = pat

LowerChar(c) ==
  CASE c = "A" -> "a" [] c = "B" -> "b" [] c = "C" -> "c" [] c = "D" -> "d"
    [] c = "E" -> "e" [] c = "F" -> "f" [] c = "G" -> "g" [] c = "H" -> "h"
    [] c = "I" -> "i" [] c = "J" -> "j" [] c = "K" -> "k" [] c = "L" -> "l"
    [] c = "M" -> "m" [] c = "N" -> "n" [] c = "O" -> "o" [] c = "P" -> "p"
    [] c = "Q" -> "q" [] c = "R" -> "r" [] c = "S" -> "s" [] c = "T" -> "t"
    [] c = "U" -> "u" [] c = "V" -> "v" [] c = "W" -> "w" [] c = "X" -> "x"
    [] c = "Y" -> "y" [] c = "Z" -> "z" [] OTHER -> c

RECURSIVE ToLowerCase(_)
\* String.prototype.toLowerCase
ToLowerCase(s) ==
  IF Len(s) = 0 THEN ""
  ELSE LowerChar(SubSeq(s, 1, 1)) \o ToLowerCase(SubSeq(s, 2, Len(s)))

(***************************************************************************)
(* The external capabilities: what they can fail with and return.          *)
(***************************************************************************)
\* messages of the errors an external call can reject with
Msgs == { "Connection error: ECONNRESET",
          "Incorrect API key provided",
          "Request timed out." }

\* createReadStream on a path that no longer exists
ENOENT == "ENOENT: no such file or directory"

\* message.content of the generation service's reply
GoodText ==
  "{\"strengths\":[\"a\",\"b\"],\"areasToImprove\":[\"c\",\"d\"],\"perfectDefinition\":\"p\",\"encouragement\":\"e\",\"score\":{\"content\":4,\"clarity\":3,\"completeness\":5,\"total\":12}}"
BadSumText ==
  "{\"strengths\":[\"a\",\"b\"],\"areasToImprove\":[\"c\",\"d\"],\"perfectDefinition\":\"p\",\"encouragement\":\"e\",\"score\":{\"content\":4,\"clarity\":3,\"completeness\":5,\"total\":10}}"
OutOfRangeText ==
  "{\"strengths\":[\"a\",\"b\"],\"areasToImprove\":[\"c\",\"d\"],\"perfectDefinition\":\"p\",\"encouragement\":\"e\",\"score\":{\"content\":9,\"clarity\":3,\"completeness\":5,\"total\":17}}"
WrongShapeText == "{\"feedback\":\"nice\"}"
NullText == "null"
ProseText == "Sure! Here is the assessment you asked for."
TruncatedText == "{\"strengths\":[\"a\",\"b\"],\"areasToImp"

Texts == { GoodText, BadSumText, OutOfRangeText, WrongShapeText, NullText,
           ProseText, TruncatedText }

\* the completions the generation service can resolve with
EvalResponses ==
  { [choices |-> <<>>] } \cup { [choices |-> << [content |-> t] >>] : t \in Texts }

JsonNull == [jsonNull |-> TRUE]

\* JSON.parse on the texts above: ok = FALSE is a thrown SyntaxError
JSONparse(t) ==
  CASE t = GoodText ->
         [ok |-> TRUE,
          value |-> [strengths |-> <<"a", "b">>, areasToImprove |-> <<"c", "d">>,
                     perfectDefinition |-> "p", encouragement |-> "e",
                     score |-> [content |-> 4, clarity |-> 3,
                                completeness |-> 5, total |-> 12]]]
    [] t = BadSumText ->
         [ok |-> TRUE,
          value |-> [strengths |-> <<"a", "b">>, areasToImprove |-> <<"c", "d">>,
                     perfectDefinition |-> "p", encouragement |-> "e",
                     score |-> [content |-> 4, clarity |-> 3,
                                completeness |-> 5, total |-> 10]]]
    [] t = OutOfRangeText ->
         [ok |-> TRUE,
          value |-> [strengths |-> <<"a", "b">>, areasToImprove |-> <<"c", "d">>,
                     perfectDefinition |-> "p", encouragement |-> "e",
                     score |-> [content |-> 9, clarity |-> 3,
                                completeness |-> 5, total |-> 17]]]
    [] t = WrongShapeText -> [ok |-> TRUE, value |-> [feedback |-> "nice"]]
    [] t = NullText -> [ok |-> TRUE, value |-> JsonNull]
    [] OTHER -> [ok |-> FALSE]

\* the assessment the handler substitutes when parsing throws
FallbackEvaluation ==
  [strengths |-> <<"Good effort">>,
   areasToImprove |-> <<"Could improve structure">>,
   perfectDefinition |-> "A comprehensive answer with clear examples",
   encouragement |-> "Keep practicing!",
   score |-> [content |-> 3, clarity |-> 2, completeness |-> 1, total |-> 6]]

\* the parse with a catch that substitutes nothing
ParseEvaluationNoFallback(er) ==
  IF "choices" \notin DOMAIN er \/ Len(er.choices) = 0 THEN JsonNull
  ELSE LET p == JSONparse(er.choices[1].content)
       IN  IF p.ok THEN p.value ELSE JsonNull

\* the try/catch around JSON.parse(evaluationResponse.choices[0].message.content):
\* reading .choices of undefined, or choices[0].message of an empty choices
\* list, throws inside the try
ParseEvaluation(er) ==
  IF "choices" \notin DOMAIN er \/ Len(er.choices) = 0 THEN FallbackEvaluation
  ELSE LET p == JSONparse(er.choices[1].content)
       IN  IF p.ok THEN p.value ELSE FallbackEvaluation

(***************************************************************************)
(* Requests.                                                               *)
(***************************************************************************)
AssessmentRoute == [method |-> "POST", path |-> "/api/assessment"]

OtherRoutes == { [method |-> "POST", path |-> "/api/assess"],
                 [method |-> "GET", path |-> "/api/assessment"],
                 [method |-> "OPTIONS", path |-> "/api/assessment"] }

NoUpload == [present |-> FALSE]
AudioUpload == [present |-> TRUE, mimetype |-> "audio/mpeg", size |-> 1024000]
ImageUpload == [present |-> TRUE, mimetype |-> "image/png", size |-> 1024000]
HugeUpload == [present |-> TRUE, mimetype |-> "audio/mpeg", size |-> 10485761]
HugeImageUpload == [present |-> TRUE, mimetype |-> "image/png", size |-> 10485761]

Uploads == { NoUpload, AudioUpload, ImageUpload, HugeUpload, HugeImageUpload }

Undefined == "<undefined>"
Question == "What is photosynthesis?"

\* req.body.question: absent, empty or a text
Questions == { Undefined, "", Question }

\* the request body: a multipart form, or a body sent as application/json
\* that is not JSON
Multipart == "multipart/form-data"
MalformedJson == "application/json, malformed"

RequestInputs ==
  [route : {AssessmentRoute}, upload : Uploads, question : Questions,
   body : {Multipart}]
    \cup [route : OtherRoutes, upload : {AudioUpload}, question : {Question},
          body : {Multipart}]
    \cup [route : {AssessmentRoute, [method |-> "POST", path |-> "/api/assess"]},
          upload : {NoUpload}, question : {Undefined}, body : {MalformedJson}]

\* values of the MAX_FILE_SIZE environment variable
EnvValues == { Undefined, "10485760", "1000000", "20971520", "0", "10MB" }

NoReq == [route |-> [method |-> "", path |-> ""]]
NoFrame == [op |-> "none"]
NoRet == [kind |-> "none"]
NoResp == [status |-> 0]
\* a local that was never assigned, or was assigned undefined
NoEval == [undefined |-> TRUE]

VARIABLES
  env,                \* process.env.MAX_FILE_SIZE
  trace,              \* the steps each request has gone through, each once
  pc,                 \* where each request is
  req,                \* the request as received
  file,               \* req.file.path, NoFile while req.file is undefined
  disk,               \* upload directory: file name -> request whose bytes it holds
  frame,              \* the running retryOperation call of each request
  ret,                \* how the last retryOperation call of each request ended
  transcription,      \* handler local
  evaluationResponse, \* handler local
  resp,               \* the response sent
  sent,               \* number of responses sent
  cleanups,           \* number of cleanupFile calls made with the request's file
  unlinkErrors,       \* number of unlinkSync failures logged
  invoked             \* external capabilities called so far

vars == << env, trace, pc, req, file, disk, frame, ret, transcription, evaluationResponse,
           resp, sent, cleanups, unlinkErrors, invoked >>

(***************************************************************************)
(* cleanupFile.                                                            *)
(***************************************************************************)
\* fs.existsSync(filePath), behind the filePath && test
ExistsSync(d, p) == p # NoFile /\ d[p] # Absent

\* cleanupFile without the unlinkSync call
CleanupFileKeeps(d, p, unlinkOk) == d

\* the upload directory after cleanupFile(p); unlinkOk = FALSE is
\* fs.unlinkSync throwing, which the catch logs and swallows
CleanupFile(d, p, unlinkOk) ==
  IF ExistsSync(d, p)
    THEN IF unlinkOk THEN [d EXCEPT ![p] = Absent] ELSE d
    ELSE d

\* cleanupFile without the existsSync test: unlinkSync of a missing file throws
CleanupLogsErrorNoExistsTest(d, p, unlinkOk) ==
  p # NoFile /\ (d[p] = Absent \/ ~unlinkOk)

\* console.error('Error cleaning up file:', error) is reached
CleanupLogsError(d, p, unlinkOk) == ExistsSync(d, p) /\ ~unlinkOk

(***************************************************************************)
(* retryOperation.  A frame is one running call: its arguments, its local  *)
(* retryCount, and a record of what the call has done so far (operation    *)
(* invocations, the waits it made, the messages it logged).                *)
(***************************************************************************)
NewFrame(opName, maxRetries) ==
  [op |-> opName, maxRetries |-> maxRetries, retryCount |-> 0,
   calls |-> 0, delays |-> <<>>, errs |-> <<>>, src |-> "none"]

\* while (retryCount < maxRetries)
LoopTest(f) == f.retryCount < f.maxRetries

\* return await operation(): the operation is invoked once more
Invoke(f, src) == [f EXCEPT !.calls = @ + 1, !.src = src]

\* catch (error): retryCount++ and the attempt is logged
Failed(f, msg) ==
  [f EXCEPT !.retryCount = @ + 1, !.errs = Append(@, msg)]

\* the test written with > for >=
ExhaustedOffByOne(f) == f.retryCount > f.maxRetries

\* if (retryCount >= maxRetries), evaluated on the frame after retryCount++
Exhausted(f) == f.retryCount >= f.maxRetries

\* the thrown message built from the first failure's message
ThrownMessageFirst(f, msg) ==
  "Failed to complete " \o ToLowerCase(f.op) \o " after "
    \o ToString(f.maxRetries) \o " attempts: " \o f.errs[1]

\* message of the Error thrown when the attempts are used up
ThrownMessage(f, msg) ==
  "Failed to complete " \o ToLowerCase(f.op) \o " after "
    \o ToString(f.maxRetries) \o " attempts: " \o msg

\* the wait doubling with every failure, as the comment above it announces
BackoffDelayExponential(f) == BaseDelay * 2 ^ (f.retryCount - 1)

\* the setTimeout argument
BackoffDelay(f) == BaseDelay * f.retryCount

\* await new Promise(resolve => setTimeout(resolve, 1000 * retryCount))
Waiting(f) == [f EXCEPT !.delays = Append(@, BackoffDelay(f))]

\* how a call ended: the value it resolved with
Returned(f, value) ==
  [kind |-> "returned", op |-> f.op, maxRetries |-> f.maxRetries,
   value |-> value]

\* how a call ended: the message of the Error it rejected with, and the
\* message of the failure that was caught last
Threw(f, message) ==
  [kind |-> "threw", op |-> f.op, maxRetries |-> f.maxRetries,
   value |-> message, last |-> f.errs[Len(f.errs)]]

(***************************************************************************)
(* The upload layer (multer) as server.js configures it.                   *)
(***************************************************************************)
DigitValue(c) ==
  CASE c = "0" -> 0 [] c = "1" -> 1 [] c = "2" -> 2 [] c = "3" -> 3
    [] c = "4" -> 4 [] c = "5" -> 5 [] c = "6" -> 6 [] c = "7" -> 7
    [] c = "8" -> 8 [] c = "9" -> 9 [] OTHER -> -1

RECURSIVE ParseDigits(_, _, _)
\* the value of the digits of s from position i on, up to the first other
\* character
ParseDigits(s, i, acc) ==
  IF i > Len(s) \/ DigitValue(SubSeq(s, i, i)) < 0 THEN acc
  ELSE ParseDigits(s, i + 1, acc * 10 + DigitValue(SubSeq(s, i, i)))

\* parseInt on an unsigned decimal text or undefined: NaN unless it starts
\* with a digit
ParseInt(s) ==
  IF s = Undefined \/ Len(s) = 0 \/ DigitValue(SubSeq(s, 1, 1)) < 0
    THEN [nan |-> TRUE, n |-> 0]
    ELSE [nan |-> FALSE, n |-> ParseDigits(s, 1, 0)]

\* parseInt(..) || 10 * 1024 * 1024: NaN and 0 are falsy
OrDefault(p) == IF p.nan \/ p.n = 0 THEN DefaultMaxFileSize ELSE p.n

\* limits.fileSize
MaxFileSize == OrDefault(ParseInt(env))

\* a maxSize that is always the default
ReportedMaxSizeDefault == DefaultMaxFileSize

\* maxSize in the error middleware's 413 body
ReportedMaxSize == OrDefault(ParseInt(env))

\* the request gets past cors() and express.json()
PassesMiddleware(q) == q.route.method # "OPTIONS" /\ q.body # MalformedJson

\* a fileFilter that calls cb(null, true) for every file
FileFilterAcceptsAll(u) == TRUE

\* fileFilter
FileFilterAccepts(u) == StartsWith(u.mimetype, "audio/")

\* the upload passes the filter and the size limit and is written to disk
Storable(u) == u.present /\ FileFilterAccepts(u) /\ u.size <= MaxFileSize

\* !req.body.question
QuestionMissing(q) == q = Undefined \/ q = ""

(***************************************************************************)
(* The handler's catch block: the category of the 500 response.            *)
(***************************************************************************)
\* the category with the API key test made before the ECONNRESET test
ErrorMessageKeyFirst(message) ==
  IF Includes(message, "API key")
    THEN "OpenAI API key issue. Please check your configuration."
  ELSE IF Includes(message, "ECONNRESET")
    THEN "Network connection issue. Please check your internet connection and try again."
  ELSE IF Includes(message, "rate limit")
    THEN "OpenAI rate limit exceeded. Please wait a moment and try again."
  ELSE "Failed to assess audio"

\* the category the catch block chooses for error.message
ErrorMessage(message) ==
  IF Includes(message, "ECONNRESET")
    THEN "Network connection issue. Please check your internet connection and try again."
  ELSE IF Includes(message, "API key")
    THEN "OpenAI API key issue. Please check your configuration."
  ELSE IF Includes(message, "rate limit")
    THEN "OpenAI rate limit exceeded. Please wait a moment and try again."
  ELSE "Failed to assess audio"

(***************************************************************************)
(* Initial state: the server is listening, the upload directory is empty.  *)
(***************************************************************************)
Init ==
  /\ env = Undefined
  /\ trace = [r \in Reqs |-> <<>>]
  /\ pc = [r \in Reqs |-> "idle"]
  /\ req = [r \in Reqs |-> NoReq]
  /\ file = [r \in Reqs |-> NoFile]
  /\ disk = [n \in Names |-> Absent]
  /\ frame = [r \in Reqs |-> NoFrame]
  /\ ret = [r \in Reqs |-> NoRet]
  /\ transcription = [r \in Reqs |-> Undefined]
  /\ evaluationResponse = [r \in Reqs |-> NoEval]
  /\ resp = [r \in Reqs |-> NoResp]
  /\ sent = [r \in Reqs |-> 0]
  /\ cleanups = [r \in Reqs |-> 0]
  /\ unlinkErrors = [r \in Reqs |-> 0]
  /\ invoked = [r \in Reqs |-> {}]

\* the request goes through the steps named in events
Log(r, events) == trace' = [trace EXCEPT ![r] = @ \o events]

\* res.status(..).json(body): the request is answered and over
Respond(r, body) ==
  /\ resp' = [resp EXCEPT ![r] = body]
  /\ sent' = [sent EXCEPT ![r] = @ + 1]
  /\ pc' = [pc EXCEPT ![r] = "done"]

\* a request arrives
Receive(r) ==
  /\ pc[r] = "idle"
  /\ \E i \in RequestInputs : req' = [req EXCEPT ![r] = i]
  /\ pc' = [pc EXCEPT ![r] = "received"]
  /\ UNCHANGED << env, trace, file, disk, frame, ret, transcription,
                  evaluationResponse, resp, sent, cleanups, unlinkErrors,
                  invoked >>

\* cors(): an OPTIONS request is answered as a preflight and goes no further
Preflight(r) ==
  /\ pc[r] = "received"
  /\ req[r].route.method = "OPTIONS"
  /\ Log(r, <<"respond">>)
  /\ Respond(r, [status |-> 204])
  /\ UNCHANGED << env, req, file, disk, frame, ret, transcription,
                  evaluationResponse, cleanups, unlinkErrors, invoked >>

\* express.json() fails on the body; the error middleware answers
BodyParseError(r) ==
  /\ pc[r] = "received"
  /\ req[r].route.method # "OPTIONS"
  /\ req[r].body = MalformedJson
  /\ Log(r, <<"respond">>)
  /\ Respond(r, [status |-> 500, error |-> "Internal server error",
                 message |-> "Unexpected token in JSON"])
  /\ UNCHANGED << env, req, file, disk, frame, ret, transcription,
                  evaluationResponse, cleanups, unlinkErrors, invoked >>

\* the 404 handler without its status(404) call
NotFoundNoStatus(r) ==
  /\ pc[r] = "received"
  /\ PassesMiddleware(req[r])
  /\ Log(r, <<"respond">>)
  /\ req[r].route # AssessmentRoute
  /\ Respond(r, [status |-> 200, error |-> "Endpoint not found",
                 message |-> "The endpoint " \o req[r].route.method \o " "
                               \o req[r].route.path \o " does not exist",
                 availableEndpoint |-> "POST /api/assess"])
  /\ UNCHANGED << env, req, file, disk, frame, ret, transcription,
                  evaluationResponse, cleanups, unlinkErrors, invoked >>

\* app.use('*'): no route matched
NotFound(r) ==
  /\ pc[r] = "received"
  /\ PassesMiddleware(req[r])
  /\ Log(r, <<"respond">>)
  /\ req[r].route # AssessmentRoute
  /\ Respond(r, [status |-> 404, error |-> "Endpoint not found",
                 message |-> "The endpoint " \o req[r].route.method \o " "
                               \o req[r].route.path \o " does not exist",
                 availableEndpoint |-> "POST /api/assess"])
  /\ UNCHANGED << env, req, file, disk, frame, ret, transcription,
                  evaluationResponse, cleanups, unlinkErrors, invoked >>

\* fileFilter calls back with an Error; the error middleware answers
UploadRejected(r) ==
  /\ pc[r] = "received"
  /\ PassesMiddleware(req[r])
  /\ Log(r, <<"respond">>)
  /\ req[r].route = AssessmentRoute
  /\ req[r].upload.present
  /\ ~FileFilterAccepts(req[r].upload)
  /\ Respond(r, [status |-> 500, error |-> "Internal server error",
                 message |-> "Only audio files are allowed!"])
  /\ UNCHANGED << env, req, file, disk, frame, ret, transcription,
                  evaluationResponse, cleanups, unlinkErrors, invoked >>

\* the upload layer raises LIMIT_FILE_SIZE and removes what it had written;
\* the error middleware answers
UploadTooLarge(r) ==
  /\ pc[r] = "received"
  /\ PassesMiddleware(req[r])
  /\ Log(r, <<"respond">>)
  /\ req[r].route = AssessmentRoute
  /\ req[r].upload.present
  /\ FileFilterAccepts(req[r].upload)
  /\ req[r].upload.size > MaxFileSize
  /\ Respond(r, [status |-> 413, error |-> "File too large",
                 message |-> "The uploaded file exceeds the maximum allowed size",
                 maxSize |-> ReportedMaxSize])
  /\ UNCHANGED << env, req, file, disk, frame, ret, transcription,
                  evaluationResponse, cleanups, unlinkErrors, invoked >>

\* the handler with the question test placed first
RejectNoFileQuestionFirst(r) ==
  /\ pc[r] = "received"
  /\ PassesMiddleware(req[r])
  /\ Log(r, <<"handler", "respond">>)
  /\ req[r].route = AssessmentRoute
  /\ ~req[r].upload.present
  /\ Respond(r, IF QuestionMissing(req[r].question)
                  THEN [status |-> 400, error |-> "No question provided",
                        message |-> "Please provide a question in the request body"]
                  ELSE [status |-> 400, error |-> "No audio file provided",
                        message |-> "Please provide an audio file in the request"])
  /\ UNCHANGED << env, req, file, disk, frame, ret, transcription,
                  evaluationResponse, cleanups, unlinkErrors, invoked >>

\* handler: if (!req.file)
RejectNoFile(r) ==
  /\ pc[r] = "received"
  /\ PassesMiddleware(req[r])
  /\ Log(r, <<"handler", "respond">>)
  /\ req[r].route = AssessmentRoute
  /\ ~req[r].upload.present
  /\ Respond(r, [status |-> 400, error |-> "No audio file provided",
                 message |-> "Please provide an audio file in the request"])
  /\ UNCHANGED << env, req, file, disk, frame, ret, transcription,
                  evaluationResponse, cleanups, unlinkErrors, invoked >>

\* the question check without its return: the 400 is sent and the handler
\* goes on to the transcription call
RejectNoQuestionNoReturn(r) ==
  /\ pc[r] = "received"
  /\ PassesMiddleware(req[r])
  /\ Log(r, <<"handler", "respond">>)
  /\ req[r].route = AssessmentRoute
  /\ Storable(req[r].upload)
  /\ QuestionMissing(req[r].question)
  /\ \E n \in Names :
       /\ disk' = [disk EXCEPT ![n] = r]
       /\ file' = [file EXCEPT ![r] = n]
  /\ frame' = [frame EXCEPT ![r] =
                 Invoke(NewFrame("Transcription", DefaultMaxRetries), r)]
  /\ invoked' = [invoked EXCEPT ![r] = @ \cup {"Transcription"}]
  /\ resp' = [resp EXCEPT ![r] =
                [status |-> 400, error |-> "No question provided",
                 message |-> "Please provide a question in the request body"]]
  /\ sent' = [sent EXCEPT ![r] = @ + 1]
  /\ pc' = [pc EXCEPT ![r] = "awaitOp"]
  /\ UNCHANGED << env, req, ret, transcription, evaluationResponse,
                  cleanups, unlinkErrors >>

\* the upload is stored under a name from the filename callback, then the
\* handler runs: if (!req.body.question)
RejectNoQuestion(r) ==
  /\ pc[r] = "received"
  /\ PassesMiddleware(req[r])
  /\ Log(r, <<"handler", "respond">>)
  /\ req[r].route = AssessmentRoute
  /\ Storable(req[r].upload)
  /\ QuestionMissing(req[r].question)
  /\ \E n \in Names :
       /\ disk' = [disk EXCEPT ![n] = r]
       /\ file' = [file EXCEPT ![r] = n]
  /\ Respond(r, [status |-> 400, error |-> "No question provided",
                 message |-> "Please provide a question in the request body"])
  /\ UNCHANGED << env, req, frame, ret, transcription, evaluationResponse,
                  cleanups, unlinkErrors, invoked >>

\* the handler without its check of req.body.question
StartTranscriptionUnvalidated(r) ==
  /\ pc[r] = "received"
  /\ PassesMiddleware(req[r])
  /\ Log(r, <<"handler", "validated", "transcribe">>)
  /\ req[r].route = AssessmentRoute
  /\ Storable(req[r].upload)
  /\ \E n \in Names :
       /\ disk' = [disk EXCEPT ![n] = r]
       /\ file' = [file EXCEPT ![r] = n]
       /\ frame' = [frame EXCEPT ![r] =
                      Invoke(NewFrame("Transcription", DefaultMaxRetries), r)]
  /\ invoked' = [invoked EXCEPT ![r] = @ \cup {"Transcription"}]
  /\ pc' = [pc EXCEPT ![r] = "awaitOp"]
  /\ UNCHANGED << env, req, ret, transcription, evaluationResponse, resp, sent,
                  cleanups, unlinkErrors >>

\* the upload is stored, validation passes, and the handler makes the first
\* transcription call
StartTranscription(r) ==
  /\ pc[r] = "received"
  /\ PassesMiddleware(req[r])
  /\ Log(r, <<"handler", "validated", "transcribe">>)
  /\ req[r].route = AssessmentRoute
  /\ Storable(req[r].upload)
  /\ ~QuestionMissing(req[r].question)
  /\ \E n \in Names :
       /\ disk' = [disk EXCEPT ![n] = r]
       /\ file' = [file EXCEPT ![r] = n]
       /\ frame' = [frame EXCEPT ![r] =
                      Invoke(NewFrame("Transcription", DefaultMaxRetries), r)]
  /\ invoked' = [invoked EXCEPT ![r] = @ \cup {"Transcription"}]
  /\ pc' = [pc EXCEPT ![r] = "awaitOp"]
  /\ UNCHANGED << env, req, ret, transcription, evaluationResponse, resp, sent,
                  cleanups, unlinkErrors >>

(***************************************************************************)
(* The handler after its awaits.                                           *)
(***************************************************************************)
\* transcription is assigned and the handler makes the first evaluation call
ContinueEvaluation(r, t) ==
  /\ transcription' = [transcription EXCEPT ![r] = t]
  /\ frame' = [frame EXCEPT ![r] =
                 Invoke(NewFrame("Evaluation", DefaultMaxRetries), "none")]
  /\ invoked' = [invoked EXCEPT ![r] = @ \cup {"Evaluation"}]
  /\ pc' = [pc EXCEPT ![r] = "awaitOp"]
  /\ Log(r, <<"evaluate">>)
  /\ UNCHANGED << env, req, file, disk, evaluationResponse, resp, sent, cleanups,
                  unlinkErrors >>

\* evaluationResponse is assigned: cleanupFile(audioFilePath), the parse with
\* its fallback, res.json
Succeed(r, er, unlinkOk) ==
  /\ evaluationResponse' = [evaluationResponse EXCEPT ![r] = er]
  /\ disk' = CleanupFile(disk, file[r], unlinkOk)
  /\ cleanups' = [cleanups EXCEPT ![r] = @ + 1]
  /\ unlinkErrors' = [unlinkErrors EXCEPT ![r] =
                        IF CleanupLogsError(disk, file[r], unlinkOk)
                          THEN @ + 1 ELSE @]
  /\ frame' = [frame EXCEPT ![r] = NoFrame]
  /\ Log(r, <<"cleanup", "respond">>)
  /\ Respond(r, [status |-> 200, success |-> TRUE,
                 question |-> req[r].question,
                 transcription |-> transcription[r],
                 assessment |-> ParseEvaluation(er),
                 audioFile |-> file[r]])
  /\ UNCHANGED << env, req, file, transcription, invoked >>

\* the catch block without its cleanupFile call
CatchNoCleanup(r, message, unlinkOk) ==
  /\ frame' = [frame EXCEPT ![r] = NoFrame]
  /\ Log(r, <<"respond">>)
  /\ Respond(r, [status |-> 500, error |-> ErrorMessage(message),
                 details |-> message])
  /\ UNCHANGED << env, req, file, disk, cleanups, unlinkErrors, transcription,
                  evaluationResponse, invoked >>

\* catch (error): cleanupFile(req.file?.path), the category, res.status(500)
Catch(r, message, unlinkOk) ==
  /\ disk' = CleanupFile(disk, file[r], unlinkOk)
  /\ cleanups' = [cleanups EXCEPT ![r] = IF file[r] # NoFile THEN @ + 1 ELSE @]
  /\ unlinkErrors' = [unlinkErrors EXCEPT ![r] =
                        IF CleanupLogsError(disk, file[r], unlinkOk)
                          THEN @ + 1 ELSE @]
  /\ frame' = [frame EXCEPT ![r] = NoFrame]
  /\ Log(r, <<"cleanup", "respond">>)
  /\ Respond(r, [status |-> 500, error |-> ErrorMessage(message),
                 details |-> message])
  /\ UNCHANGED << env, req, file, transcription, evaluationResponse, invoked >>

\* an external call rejects with msg: retryOperation's catch, then either its
\* throw, caught by the handler, or the start of the wait
FailStep(r, msg) ==
  LET g == Failed(frame[r], msg)
  IN  IF Exhausted(g)
        THEN /\ ret' = [ret EXCEPT ![r] = Threw(g, ThrownMessage(g, msg))]
             /\ \E unlinkOk \in BOOLEAN : Catch(r, ThrownMessage(g, msg), unlinkOk)
        ELSE /\ frame' = [frame EXCEPT ![r] = Waiting(g)]
             /\ pc' = [pc EXCEPT ![r] = "backoff"]
             /\ UNCHANGED << env, trace, req, file, disk, ret, transcription,
                             evaluationResponse, resp, sent, cleanups,
                             unlinkErrors, invoked >>

\* the transcription service resolves with the text of the audio it was sent;
\* ret records it as the body of the service's reply
TranscriptionSucceeds(r) ==
  /\ pc[r] = "awaitOp"
  /\ frame[r].op = "Transcription"
  /\ frame[r].src # Absent
  /\ LET t == "transcript of " \o frame[r].src
     IN  /\ ret' = [ret EXCEPT ![r] = Returned(frame[r], [text |-> t])]
         /\ ContinueEvaluation(r, t)

\* the transcription call rejects: the read stream finds no file, or the
\* service fails
TranscriptionFails(r) ==
  /\ pc[r] = "awaitOp"
  /\ frame[r].op = "Transcription"
  /\ \E msg \in (IF frame[r].src = Absent THEN {ENOENT} ELSE Msgs) :
       FailStep(r, msg)

\* the generation service resolves
EvaluationSucceeds(r) ==
  /\ pc[r] = "awaitOp"
  /\ frame[r].op = "Evaluation"
  /\ \E er \in EvalResponses, unlinkOk \in BOOLEAN :
       /\ ret' = [ret EXCEPT ![r] = Returned(frame[r], er)]
       /\ Succeed(r, er, unlinkOk)

\* the generation call rejects
EvaluationFails(r) ==
  /\ pc[r] = "awaitOp"
  /\ frame[r].op = "Evaluation"
  /\ \E msg \in Msgs : FailStep(r, msg)

\* a backoff whose promise never resolves
BackoffNeverElapses(r) ==
  /\ pc[r] = "backoff"
  /\ frame[r].src # "stub"
  /\ UNCHANGED vars

\* the backoff timer fires: the loop test, then the next invocation; a loop
\* that ends falls off the end of retryOperation, which returns undefined
BackoffElapsed(r) ==
  /\ pc[r] = "backoff"
  /\ frame[r].src # "stub"
  /\ IF LoopTest(frame[r])
       THEN /\ frame' = [frame EXCEPT ![r] =
                           Invoke(@, IF @.op = "Transcription"
                                       THEN disk[file[r]] ELSE "none")]
            /\ pc' = [pc EXCEPT ![r] = "awaitOp"]
            /\ UNCHANGED << env, trace, req, file, disk, ret, transcription,
                            evaluationResponse, resp, sent, cleanups,
                            unlinkErrors, invoked >>
       ELSE /\ ret' = [ret EXCEPT ![r] = Returned(frame[r], Undefined)]
            /\ IF frame[r].op = "Transcription"
                 THEN ContinueEvaluation(r, Undefined)
                 ELSE \E unlinkOk \in BOOLEAN : Succeed(r, NoEval, unlinkOk)

(***************************************************************************)
(* retryOperation called on its own, with a stub operation that resolves   *)
(* with the number of the invocation or rejects, for any maxRetries.       *)
(***************************************************************************)
OperationNames == { "Operation", "Transcription", "Evaluation" }

StubResult(f) == "result-" \o ToString(f.calls)

InitRetry ==
  /\ \E c \in Reqs, opName \in OperationNames, n \in 0..MaxAttempts :
       /\ pc = [r \in Reqs |-> IF r = c THEN "call" ELSE "idle"]
       /\ frame = [r \in Reqs |-> IF r = c THEN NewFrame(opName, n) ELSE NoFrame]
  /\ env = Undefined
  /\ trace = [r \in Reqs |-> <<>>]
  /\ req = [r \in Reqs |-> NoReq]
  /\ file = [r \in Reqs |-> NoFile]
  /\ disk = [n \in Names |-> Absent]
  /\ ret = [r \in Reqs |-> NoRet]
  /\ transcription = [r \in Reqs |-> Undefined]
  /\ evaluationResponse = [r \in Reqs |-> NoEval]
  /\ resp = [r \in Reqs |-> NoResp]
  /\ sent = [r \in Reqs |-> 0]
  /\ cleanups = [r \in Reqs |-> 0]
  /\ unlinkErrors = [r \in Reqs |-> 0]
  /\ invoked = [r \in Reqs |-> {}]

\* the call resolves with value
StubReturn(r, value) ==
  /\ ret' = [ret EXCEPT ![r] = Returned(frame[r], value)]
  /\ frame' = [frame EXCEPT ![r] = NoFrame]
  /\ pc' = [pc EXCEPT ![r] = "returned"]

\* retryOperation is entered: the first loop test and invocation
RetryCall(r) ==
  /\ pc[r] = "call"
  /\ IF LoopTest(frame[r])
       THEN /\ frame' = [frame EXCEPT ![r] = Invoke(@, "stub")]
            /\ pc' = [pc EXCEPT ![r] = "awaitOp"]
            /\ UNCHANGED ret
       ELSE StubReturn(r, Undefined)
  /\ UNCHANGED << env, trace, req, file, disk, transcription, evaluationResponse, resp,
                  sent, cleanups, unlinkErrors, invoked >>

\* the operation resolves
StubSucceeds(r) ==
  /\ pc[r] = "awaitOp"
  /\ frame[r].src = "stub"
  /\ StubReturn(r, StubResult(frame[r]))
  /\ UNCHANGED << env, trace, req, file, disk, transcription, evaluationResponse, resp,
                  sent, cleanups, unlinkErrors, invoked >>

\* the operation rejects
StubFails(r) ==
  /\ pc[r] = "awaitOp"
  /\ frame[r].src = "stub"
  /\ \E msg \in Msgs :
       LET g == Failed(frame[r], msg)
       IN  IF Exhausted(g)
             THEN /\ ret' = [ret EXCEPT ![r] = Threw(g, ThrownMessage(g, msg))]
                  /\ frame' = [frame EXCEPT ![r] = NoFrame]
                  /\ pc' = [pc EXCEPT ![r] = "threw"]
             ELSE /\ frame' = [frame EXCEPT ![r] = Waiting(g)]
                  /\ pc' = [pc EXCEPT ![r] = "backoff"]
                  /\ UNCHANGED ret
  /\ UNCHANGED << env, trace, req, file, disk, transcription, evaluationResponse, resp,
                  sent, cleanups, unlinkErrors, invoked >>

\* the backoff timer fires
StubBackoffElapsed(r) ==
  /\ pc[r] = "backoff"
  /\ frame[r].src = "stub"
  /\ IF LoopTest(frame[r])
       THEN /\ frame' = [frame EXCEPT ![r] = Invoke(@, "stub")]
            /\ pc' = [pc EXCEPT ![r] = "awaitOp"]
            /\ UNCHANGED ret
       ELSE StubReturn(r, Undefined)
  /\ UNCHANGED << env, trace, req, file, disk, transcription, evaluationResponse, resp,
                  sent, cleanups, unlinkErrors, invoked >>

NextRetry ==
  \E r \in Reqs :
    \/ RetryCall(r)
    \/ StubSucceeds(r)
    \/ StubFails(r)
    \/ StubBackoffElapsed(r)

SpecRetry == InitRetry /\ [][NextRetry]_vars

(***************************************************************************)
(* The server started under any MAX_FILE_SIZE, serving one client.         *)
(***************************************************************************)
InitConfig ==
  /\ env \in EnvValues
  /\ \E c \in Reqs : pc = [r \in Reqs |-> IF r = c THEN "idle" ELSE "closed"]
  /\ trace = [r \in Reqs |-> <<>>]
  /\ req = [r \in Reqs |-> NoReq]
  /\ file = [r \in Reqs |-> NoFile]
  /\ disk = [n \in Names |-> Absent]
  /\ frame = [r \in Reqs |-> NoFrame]
  /\ ret = [r \in Reqs |-> NoRet]
  /\ transcription = [r \in Reqs |-> Undefined]
  /\ evaluationResponse = [r \in Reqs |-> NoEval]
  /\ resp = [r \in Reqs |-> NoResp]
  /\ sent = [r \in Reqs |-> 0]
  /\ cleanups = [r \in Reqs |-> 0]
  /\ unlinkErrors = [r \in Reqs |-> 0]
  /\ invoked = [r \in Reqs |-> {}]

Next ==
  \E r \in Reqs :
    \/ Receive(r)
    \/ Preflight(r)
    \/ BodyParseError(r)
    \/ NotFound(r)
    \/ UploadRejected(r)
    \/ UploadTooLarge(r)
    \/ RejectNoFile(r)
    \/ RejectNoQuestion(r)
    \/ StartTranscription(r)
    \/ TranscriptionSucceeds(r)
    \/ TranscriptionFails(r)
    \/ EvaluationSucceeds(r)
    \/ EvaluationFails(r)
    \/ BackoffElapsed(r)

Spec == Init /\ [][Next]_vars

SpecConfig == InitConfig /\ [][Next]_vars

\* what the environment owes request r: a pending external call settles, a
\* pending backoff timer fires
Progress(r) ==
  \/ TranscriptionSucceeds(r)
  \/ TranscriptionFails(r)
  \/ EvaluationSucceeds(r)
  \/ EvaluationFails(r)
  \/ BackoffElapsed(r)

\* the server under the assumption that every external call eventually
\* returns or fails and every backoff wait eventually elapses (each such step
\* changes pc or frame), serving one client, MAX_FILE_SIZE not set
InitLive == InitConfig /\ env = Undefined

SpecLive ==
  InitLive /\ [][Next]_vars /\ \A r \in Reqs : WF_<<pc, frame>>(Progress(r))

(***************************************************************************)
(* cleanupFile as the handler calls it, for every path and every content   *)
(* of the upload directory, and called once more after the response.       *)
(***************************************************************************)
\* how the handler's awaits can have ended when it reaches a cleanupFile call
PendingOutcomes ==
  { Returned(NewFrame("Evaluation", DefaultMaxRetries),
             [choices |-> << [content |-> GoodText] >>]) }
    \cup { LET g == Failed(NewFrame("Transcription", DefaultMaxRetries), msg)
           IN  Threw(g, ThrownMessage(g, msg)) : msg \in Msgs }

\* the handler of one request stands before its cleanupFile call: line 164
\* after evaluationResponse is assigned, line 203 after a throw; only the
\* catch can pass an undefined path (req.file?.path)
InitCleanup ==
  /\ \E c \in Reqs, p \in Names \cup {NoFile}, out \in PendingOutcomes :
       /\ p = NoFile => out.kind = "threw"
       /\ pc = [r \in Reqs |-> IF r = c THEN "settled" ELSE "closed"]
       /\ file = [r \in Reqs |-> IF r = c THEN p ELSE NoFile]
       /\ ret = [r \in Reqs |-> IF r = c THEN out ELSE NoRet]
       /\ req = [r \in Reqs |->
                   IF r = c THEN [route |-> AssessmentRoute,
                                  upload |-> AudioUpload,
                                  question |-> Question, body |-> Multipart]
                            ELSE NoReq]
       /\ transcription = [r \in Reqs |->
                             IF r = c /\ out.kind = "returned"
                               THEN "transcript of " \o r ELSE Undefined]
       /\ trace = [r \in Reqs |->
                     IF r # c THEN << >>
                     ELSE IF out.kind = "returned"
                       THEN <<"handler", "validated", "transcribe", "evaluate">>
                       ELSE <<"handler", "validated", "transcribe">>]
       /\ invoked = [r \in Reqs |->
                       IF r # c THEN {}
                       ELSE IF out.kind = "returned"
                         THEN {"Transcription", "Evaluation"}
                         ELSE {"Transcription"}]
  /\ disk \in [Names -> {Absent} \cup Reqs]
  /\ env = Undefined
  /\ frame = [r \in Reqs |-> NoFrame]
  /\ evaluationResponse = [r \in Reqs |-> NoEval]
  /\ resp = [r \in Reqs |-> NoResp]
  /\ sent = [r \in Reqs |-> 0]
  /\ cleanups = [r \in Reqs |-> 0]
  /\ unlinkErrors = [r \in Reqs |-> 0]

\* the rest of the try block: cleanupFile(audioFilePath), parse, res.json
SettleReturned(r) ==
  /\ pc[r] = "settled"
  /\ ret[r].kind = "returned"
  /\ \E unlinkOk \in BOOLEAN : Succeed(r, ret[r].value, unlinkOk)
  /\ UNCHANGED ret

\* the catch block: cleanupFile(req.file?.path), res.status(500)
SettleThrew(r) ==
  /\ pc[r] = "settled"
  /\ ret[r].kind = "threw"
  /\ \E unlinkOk \in BOOLEAN : Catch(r, ret[r].value, unlinkOk)
  /\ UNCHANGED ret

\* cleanupFile is called again with the same path
ReleaseAgain(r) ==
  /\ pc[r] = "done"
  /\ \E unlinkOk \in BOOLEAN :
       /\ disk' = CleanupFile(disk, file[r], unlinkOk)
       /\ unlinkErrors' = [unlinkErrors EXCEPT ![r] =
                             IF CleanupLogsError(disk, file[r], unlinkOk)
                               THEN @ + 1 ELSE @]
  /\ cleanups' = [cleanups EXCEPT ![r] = IF file[r] # NoFile THEN @ + 1 ELSE @]
  /\ pc' = [pc EXCEPT ![r] = "released"]
  /\ UNCHANGED << env, trace, req, file, frame, ret, transcription,
                  evaluationResponse, resp, sent, invoked >>

NextCleanup ==
  \E r \in Reqs :
    \/ SettleReturned(r)
    \/ SettleThrew(r)
    \/ ReleaseAgain(r)

SpecCleanup == InitCleanup /\ [][NextCleanup]_vars

(***************************************************************************)
(* The catch block of the handler, for failures of either step with        *)
(* messages that match none, one or several of its patterns.               *)
(***************************************************************************)
\* messages an external call can reject with, beyond Msgs
PatternMsgs ==
  Msgs \cup { "Rate limit reached: rate limit exceeded",
              "Rate limit reached",
              "ECONNRESET while checking the API key",
              "API key is over its rate limit",
              "rate limit hit after ECONNRESET with this API key",
              "" }

\* the handler of one request stands at its catch with the Error that
\* retryOperation threw; the upload is on disk
InitCatch ==
  /\ \E c \in Reqs, n \in Names, opName \in {"Transcription", "Evaluation"},
        msg \in PatternMsgs :
       /\ pc = [r \in Reqs |-> IF r = c THEN "settled" ELSE "closed"]
       /\ file = [r \in Reqs |-> IF r = c THEN n ELSE NoFile]
       /\ disk = [m \in Names |-> IF m = n THEN c ELSE Absent]
       /\ ret = [r \in Reqs |->
                   IF r = c
                     THEN LET g == Failed(NewFrame(opName, DefaultMaxRetries), msg)
                          IN  Threw(g, ThrownMessage(g, msg))
                     ELSE NoRet]
       /\ req = [r \in Reqs |->
                   IF r = c THEN [route |-> AssessmentRoute,
                                  upload |-> AudioUpload,
                                  question |-> Question, body |-> Multipart]
                            ELSE NoReq]
       /\ transcription = [r \in Reqs |->
                             IF r = c /\ opName = "Evaluation"
                               THEN "transcript of " \o r ELSE Undefined]
       /\ trace = [r \in Reqs |->
                     IF r # c THEN << >>
                     ELSE IF opName = "Evaluation"
                       THEN <<"handler", "validated", "transcribe", "evaluate">>
                       ELSE <<"handler", "validated", "transcribe">>]
       /\ invoked = [r \in Reqs |->
                       IF r # c THEN {}
                       ELSE IF opName = "Evaluation"
                         THEN {"Transcription", "Evaluation"}
                         ELSE {"Transcription"}]
  /\ env = Undefined
  /\ frame = [r \in Reqs |-> NoFrame]
  /\ evaluationResponse = [r \in Reqs |-> NoEval]
  /\ resp = [r \in Reqs |-> NoResp]
  /\ sent = [r \in Reqs |-> 0]
  /\ cleanups = [r \in Reqs |-> 0]
  /\ unlinkErrors = [r \in Reqs |-> 0]

NextCatch == \E r \in Reqs : SettleThrew(r)

SpecCatch == InitCatch /\ [][NextCatch]_vars

(***************************************************************************)
(* Properties.                                                             *)
(***************************************************************************)
\* the handler of POST /api/assessment has been entered for r
HandlerEntered(r) == \E i \in 1..Len(trace[r]) : trace[r][i] = "handler"

\* the request carries an audio file that is stored and a non-empty question
ValidRequest(r) ==
  /\ req[r].route = AssessmentRoute
  /\ Storable(req[r].upload)
  /\ ~QuestionMissing(req[r].question)

\* the file the upload layer wrote for r is still in the upload directory
FileRemains(r) == file[r] # NoFile /\ disk[file[r]] = r

\* r has been answered by the handler's success or catch path
Answered(r) == pc[r] = "done" /\ resp[r].status \in {200, 500}

\* C1 as claimed: once the 200 or 500 response of a valid request has been
\* sent, the temporary audio file written for it no longer exists.
C1_FileGoneAfterResponse ==
  \A r \in Reqs : (ValidRequest(r) /\ Answered(r)) => ~FileRemains(r)

\* C1 amended: once the 200 or 500 response of a valid request has been sent,
\* cleanupFile has run on its temporary file, and the file no longer exists
\* unless unlinkSync failed on it, a failure cleanupFile logs and swallows.
C1_FileGoneUnlessUnlinkFailed ==
  \A r \in Reqs :
    (ValidRequest(r) /\ Answered(r)) =>
      /\ cleanups[r] >= 1
      /\ FileRemains(r) => unlinkErrors[r] > 0

C1_Witness ==
  \E r, q \in Reqs :
    /\ ValidRequest(r) /\ pc[r] = "done" /\ resp[r].status = 200
    /\ ValidRequest(q) /\ pc[q] = "done" /\ resp[q].status = 500
    /\ ~FileRemains(r) /\ ~FileRemains(q)
    /\ unlinkErrors[r] = 0 /\ unlinkErrors[q] = 0

\* C2: for every request for which the upload layer wrote a temporary file,
\* cleanupFile has been called exactly once on that file when the request
\* ends, on every exit path of the handler.
C2_ReleasedExactlyOnce ==
  \A r \in Reqs : (pc[r] = "done" /\ file[r] # NoFile) => cleanups[r] = 1

\* C3: a request with an audio file and a missing or empty question is
\* answered 400 "No question provided", no external call is made, and the
\* temporary file already written for it is deleted.
C3_NoQuestionRejectedAndCleaned ==
  \A r \in Reqs :
    ( /\ pc[r] = "done"
      /\ req[r].route = AssessmentRoute
      /\ Storable(req[r].upload)
      /\ QuestionMissing(req[r].question) ) =>
      /\ resp[r].status = 400
      /\ resp[r].error = "No question provided"
      /\ invoked[r] = {}
      /\ ~FileRemains(r)

\* C4 as claimed: a request without an audio file is answered 400 "No audio file
\* provided", also when the question is missing too; no temporary file is
\* created and no external capability is invoked.
C4_NoAudioRejected ==
  \A r \in Reqs :
    (req[r].route = AssessmentRoute /\ ~req[r].upload.present) =>
      /\ file[r] = NoFile
      /\ \A n \in Names : disk[n] # r
      /\ invoked[r] = {}
      /\ frame[r] = NoFrame
      /\ pc[r] = "done" =>
           /\ resp[r].status = 400
           /\ resp[r].error = "No audio file provided"

\* C4 amended: a request without an audio file whose body the JSON body
\* parser does not reject is answered 400 "No audio file provided" by the
\* handler, also when the question is missing too; one whose application/json
\* body cannot be parsed is answered 500 by the error middleware before the
\* handler. In both cases no temporary file is created and no external
\* capability is invoked.
C4_NoAudioRejectedByHandler ==
  \A r \in Reqs :
    (req[r].route = AssessmentRoute /\ ~req[r].upload.present) =>
      /\ file[r] = NoFile
      /\ \A n \in Names : disk[n] # r
      /\ invoked[r] = {}
      /\ frame[r] = NoFrame
      /\ pc[r] = "done" =>
           IF req[r].body = MalformedJson
             THEN /\ resp[r].status = 500
                  /\ resp[r].error = "Internal server error"
                  /\ ~HandlerEntered(r)
             ELSE /\ resp[r].status = 400
                  /\ resp[r].error = "No audio file provided"
                  /\ HandlerEntered(r)

C4_Witness ==
  \E r \in Reqs :
    /\ pc[r] = "done"
    /\ req[r].route = AssessmentRoute
    /\ ~req[r].upload.present
    /\ QuestionMissing(req[r].question)
    /\ resp[r].status = 400

\* the generation service resolved with a text that JSON.parse rejects
GotMalformedJson(r) ==
  /\ "choices" \in DOMAIN evaluationResponse[r]
  /\ Len(evaluationResponse[r].choices) > 0
  /\ evaluationResponse[r].choices[1].content \in {ProseText, TruncatedText}

\* C5: when transcription succeeded and the generation service returns text
\* that is not valid JSON, the request ends with status 200, success = TRUE
\* and the fallback assessment with score 3, 2, 1, total 6.
C5_MalformedJsonGivesFallback ==
  \A r \in Reqs :
    GotMalformedJson(r) =>
      /\ transcription[r] # Undefined
      /\ pc[r] = "done"
      /\ resp[r].status = 200
      /\ resp[r].success = TRUE
      /\ resp[r].assessment =
           [strengths |-> <<"Good effort">>,
            areasToImprove |-> <<"Could improve structure">>,
            perfectDefinition |-> "A comprehensive answer with clear examples",
            encouragement |-> "Keep practicing!",
            score |-> [content |-> 3, clarity |-> 2, completeness |-> 1,
                       total |-> 6]]

C5_Witness ==
  \E r \in Reqs :
    /\ GotMalformedJson(r)
    /\ evaluationResponse[r].choices[1].content = ProseText
    /\ resp[r].status = 200

\* an assessment whose score has the three parts in 0..5 and their sum as total
WellScored(a) ==
  /\ "score" \in DOMAIN a
  /\ {"content", "clarity", "completeness", "total"} \subseteq DOMAIN a.score
  /\ a.score.content \in 0..5
  /\ a.score.clarity \in 0..5
  /\ a.score.completeness \in 0..5
  /\ a.score.total = a.score.content + a.score.clarity + a.score.completeness

\* C6: in every 200 response the assessment's score has total = content +
\* clarity + completeness and each of the three within 0..5.
C6_ScoreConsistent ==
  \A r \in Reqs : resp[r].status = 200 => WellScored(resp[r].assessment)

\* what a running retryOperation call has done so far agrees with its
\* retryCount: every invocation but a pending one has failed, and each
\* failure but a last one was followed by one wait
FrameCounts(r) ==
  LET f == frame[r]
  IN  /\ pc[r] = "awaitOp" =>
           /\ f.calls = f.retryCount + 1
           /\ f.calls <= f.maxRetries
           /\ Len(f.errs) = f.calls - 1
           /\ Len(f.delays) = f.calls - 1
      /\ pc[r] = "backoff" =>
           /\ f.calls = f.retryCount
           /\ f.calls < f.maxRetries
           /\ Len(f.errs) = f.calls
           /\ Len(f.delays) = f.calls
      /\ pc[r] \in {"returned", "threw"} => f = NoFrame

\* the step in which a call with maxRetries >= 1 ends: it resolves with the
\* result of the invocation that was pending, the k-th, after k-1 failures
\* and k-1 waits, or it rejects on the failure of the N-th invocation
CallEnds(r) ==
  LET f == frame[r]
  IN  (f # NoFrame /\ f.maxRetries >= 1 /\ frame'[r] = NoFrame) =>
        /\ pc[r] = "awaitOp"
        /\ \/ /\ ret'[r].kind = "returned"
              /\ ret'[r].value = "result-" \o ToString(Len(f.errs) + 1)
              /\ f.calls = Len(f.errs) + 1
              /\ Len(f.delays) = Len(f.errs)
           \/ /\ ret'[r].kind = "threw"
              /\ f.calls = f.maxRetries
              /\ Len(f.errs) = f.maxRetries - 1
              /\ Len(f.delays) = f.maxRetries - 1

\* C7: for every maxRetries N >= 1 and every sequence of outcomes,
\* retryOperation invokes the operation exactly k times, k the index of the
\* first success or N when all fail; it returns the k-th result after k-1
\* waits and invokes nothing afterwards, or throws after exactly N invocations.
C7_RetryAttempts ==
  /\ [](\A r \in Reqs : FrameCounts(r))
  /\ [][\A r \in Reqs : CallEnds(r)]_vars

C7_Witness ==
  \E r \in Reqs :
    /\ pc[r] = "returned"
    /\ ret[r].maxRetries = 3
    /\ ret[r].value = "result-3"

C9_AggregatedErrorInDetails ==
  \A r \in Reqs :
    (pc[r] = "done" /\ ret[r].kind = "threw") =>
      /\ resp[r].status = 500
      /\ resp[r].details = ret[r].value
      /\ ret[r].op = "Transcription" =>
           ret[r].value = "Failed to complete transcription after 3 attempts: "
                            \o ret[r].last
      /\ ret[r].op = "Evaluation" =>
           ret[r].value = "Failed to complete evaluation after 3 attempts: "
                            \o ret[r].last

C9_Witness ==
  \E r \in Reqs :
    /\ pc[r] = "done"
    /\ ret[r].kind = "threw"
    /\ ret[r].op = "Evaluation"
    /\ resp[r].details =
         "Failed to complete evaluation after 3 attempts: Request timed out."

\* C10 as claimed: once transcription has succeeded the request never ends
\* with a 500; it ends with a 200 whatever the generation service does.
C10_EvaluationNeverFails ==
  \A r \in Reqs :
    (pc[r] = "done" /\ transcription[r] # Undefined) => resp[r].status = 200

\* C10 amended: once transcription has succeeded, the request ends with a 200
\* whenever the generation service resolves within its 3 attempts, whatever it
\* resolves with; when the generation call fails on all 3 attempts the request
\* goes through cleanup and ends with a 500 whose details is the aggregated
\* Evaluation error.
C10_EvaluationFailsOnlyWhenExhausted ==
  \A r \in Reqs :
    (pc[r] = "done" /\ transcription[r] # Undefined) =>
      /\ cleanups[r] = 1
      /\ ret[r].op = "Evaluation"
      /\ \/ /\ ret[r].kind = "returned"
            /\ resp[r].status = 200
            /\ resp[r].success = TRUE
         \/ /\ ret[r].kind = "threw"
            /\ resp[r].status = 500
            /\ resp[r].details = ret[r].value

C10_Witness ==
  \E r \in Reqs :
    /\ pc[r] = "done"
    /\ transcription[r] # Undefined
    /\ ret[r].kind = "threw"
    /\ resp[r].status = 500
    /\ cleanups[r] = 1

\* the request reaches the upload layer of POST /api/assessment
ReachesUpload(r) ==
  req[r].route = AssessmentRoute /\ PassesMiddleware(req[r])

\* nothing was stored for r, its handler did not run and no external
\* capability was called for it
StoppedBeforeHandler(r) ==
  /\ ~HandlerEntered(r)
  /\ file[r] = NoFile
  /\ \A n \in Names : disk[n] # r
  /\ invoked[r] = {}
  /\ frame[r] = NoFrame

\* C11 as claimed: an upload whose size exceeds the configured maximum is
\* answered 413 with maxSize equal to the limit the upload layer enforces;
\* the handler is never entered and no external capability is invoked.
C11_OversizeGets413 ==
  \A r \in Reqs :
    ( /\ ReachesUpload(r)
      /\ req[r].upload.present
      /\ req[r].upload.size > MaxFileSize ) =>
      /\ StoppedBeforeHandler(r)
      /\ pc[r] = "done" =>
           /\ resp[r].status = 413
           /\ resp[r].maxSize = MaxFileSize

\* C11 amended: an upload that passes the file filter (its media type starts
\* with "audio/") and whose size exceeds the configured maximum is answered
\* 413 with maxSize equal to the limit the upload layer enforces, the value of
\* MAX_FILE_SIZE or 10485760 when that is unset, 0 or not a number; the handler
\* is never entered and no external capability is invoked.  An oversize
\* upload of another media type is refused by the file filter first.
C11_OversizeAudioGets413 ==
  \A r \in Reqs :
    ( /\ ReachesUpload(r)
      /\ req[r].upload.present
      /\ FileFilterAccepts(req[r].upload)
      /\ req[r].upload.size > MaxFileSize ) =>
      /\ StoppedBeforeHandler(r)
      /\ pc[r] = "done" =>
           /\ resp[r].status = 413
           /\ resp[r].maxSize = MaxFileSize
           /\ env \in {Undefined, "0", "10485760"} => resp[r].maxSize = 10485760
           /\ env = "1000000" => resp[r].maxSize = 1000000
           /\ env = "10MB" => resp[r].maxSize = 10

C11_Witness ==
  \E r \in Reqs :
    /\ pc[r] = "done"
    /\ env = "1000000"
    /\ req[r].upload = AudioUpload
    /\ resp[r].status = 413
    /\ resp[r].maxSize = 1000000

\* the body of the 404 handler for the request of r
IsNotFoundBody(r) ==
  /\ resp[r].status = 404
  /\ DOMAIN resp[r] = {"status", "error", "message", "availableEndpoint"}
  /\ resp[r].message = "The endpoint " \o req[r].route.method \o " "
                         \o req[r].route.path \o " does not exist"

\* C12 as claimed: every request whose method and path are not POST
\* /api/assessment is answered 404 with error, message and availableEndpoint,
\* creates no file and invokes no external capability.
C12_UnknownRouteGets404 ==
  \A r \in Reqs :
    (pc[r] = "done" /\ req[r].route # AssessmentRoute) =>
      /\ IsNotFoundBody(r)
      /\ StoppedBeforeHandler(r)

\* C12 amended: a request whose method and path are not POST /api/assessment
\* creates no file and invokes no external capability, and it is answered 404
\* with error, message and availableEndpoint unless a middleware answers
\* first: cors() ends an OPTIONS request with 204, and a body that
\* express.json() cannot parse is answered 500 by the error middleware.
C12_UnknownRouteGets404PastMiddleware ==
  \A r \in Reqs :
    (pc[r] # "idle" /\ req[r].route # AssessmentRoute) =>
      /\ StoppedBeforeHandler(r)
      /\ pc[r] \in {"received", "done"}
      /\ pc[r] = "done" =>
           IF req[r].route.method = "OPTIONS" THEN resp[r].status = 204
           ELSE IF req[r].body = MalformedJson
             THEN resp[r].status = 500 /\ resp[r].error = "Internal server error"
           ELSE IsNotFoundBody(r)

C12_Witness ==
  \E r \in Reqs :
    /\ pc[r] = "done"
    /\ req[r].route = [method |-> "GET", path |-> "/api/assessment"]
    /\ req[r].upload = AudioUpload
    /\ IsNotFoundBody(r)
    /\ resp[r].message = "The endpoint GET /api/assessment does not exist"

\* the orders in which one request can have taken its steps so far
StepOrders ==
  { << >>, <<"respond">>, <<"handler">>, <<"handler", "respond">>,
    <<"handler", "validated", "transcribe">>,
    <<"handler", "validated", "transcribe", "cleanup", "respond">>,
    <<"handler", "validated", "transcribe", "evaluate">>,
    <<"handler", "validated", "transcribe", "evaluate", "cleanup", "respond">> }

\* C13: within one request the steps happen only in the order validate,
\* transcribe, evaluate, cleanup, respond: transcription is invoked only for a
\* request that passed validation, evaluation only after transcription
\* returned a result, a request whose transcription exhausted its retries is
\* answered 500 after its cleanup and without an evaluation call, nothing is
\* invoked after cleanup, and cleanup precedes the response on the 200 and the
\* 500 path.
C13_LinearPipeline ==
  \A r \in Reqs :
    /\ trace[r] \in StepOrders
    /\ "Transcription" \in invoked[r] =>
         /\ req[r].route = AssessmentRoute
         /\ req[r].upload.present
         /\ ~QuestionMissing(req[r].question)
         /\ file[r] # NoFile
    /\ "Evaluation" \in invoked[r] =>
         /\ "Transcription" \in invoked[r]
         /\ transcription[r] # Undefined
    /\ (frame[r] # NoFrame /\ frame[r].op = "Evaluation") =>
         transcription[r] # Undefined
    /\ (pc[r] = "done" /\ invoked[r] = {"Transcription"}) =>
         /\ resp[r].status = 500
         /\ ret[r].kind = "threw" /\ ret[r].op = "Transcription"
         /\ transcription[r] = Undefined
         /\ cleanups[r] = 1
    /\ cleanups[r] > 0 => (frame[r] = NoFrame /\ pc[r] = "done")
    /\ (Answered(r) /\ HandlerEntered(r)) =>
         /\ cleanups[r] = 1
         /\ Len(trace[r]) >= 5
         /\ SubSeq(trace[r], Len(trace[r]) - 1, Len(trace[r]))
              = <<"cleanup", "respond">>

C13_Witness ==
  \E r \in Reqs :
    /\ pc[r] = "done"
    /\ resp[r].status = 500
    /\ invoked[r] = {"Transcription"}
    /\ trace[r] = <<"handler", "validated", "transcribe", "cleanup", "respond">>
    /\ \E q \in Reqs :
         /\ resp[q] # NoResp /\ resp[q].status = 200
         /\ trace[q] = <<"handler", "validated", "transcribe", "evaluate",
                         "cleanup", "respond">>

\* r is between the storing of its upload and its response
InFlight(r) == pc[r] \in {"awaitOp", "backoff"}

\* C14: no two in-flight requests have the same temporary file name, the file
\* of a request that has not finished transcribing is still its own, and every
\* transcription call reads, and every transcript comes from, the audio of the
\* request that made it.
C14_TemporaryFilesIndependent ==
  \A r \in Reqs :
    /\ \A q \in Reqs \ {r} :
         (InFlight(r) /\ InFlight(q)) => file[r] # file[q]
    /\ (InFlight(r) /\ frame[r].op = "Transcription") =>
         /\ disk[file[r]] = r
         /\ frame[r].src = r
    /\ transcription[r] \in {Undefined, "transcript of " \o r}

\* what one cleanupFile call of r may do in a step: nothing at all for an
\* undefined path or a missing file; otherwise the file is deleted, or the
\* deletion fails, is logged, and the directory stays as it was
ReleaseEffect(r) ==
  IF ExistsSync(disk, file[r])
    THEN \/ /\ disk' = [disk EXCEPT ![file[r]] = Absent]
            /\ unlinkErrors' = unlinkErrors
         \/ /\ disk' = disk
            /\ unlinkErrors'[r] = unlinkErrors[r] + 1
    ELSE disk' = disk /\ unlinkErrors' = unlinkErrors

\* the handler's own release: the response is the one its awaits decided
FirstRelease(r) ==
  (pc[r] = "settled" /\ pc'[r] # "settled") =>
    /\ ReleaseEffect(r)
    /\ pc'[r] = "done" /\ sent'[r] = 1
    /\ resp'[r].status = IF ret[r].kind = "returned" THEN 200 ELSE 500

\* C15 as claimed: cleanupFile never propagates an error (the response is 200
\* after a returned evaluation and 500 after a throw, whatever the deletion
\* did), changes nothing for an undefined path or a missing file, swallows a
\* failed deletion, and a second release of the same file leaves the file
\* system exactly as the first release left it.
C15_ReleaseIdempotent ==
  [][\A r \in Reqs :
       /\ FirstRelease(r)
       /\ (pc[r] = "done" /\ pc'[r] = "released") =>
            /\ ReleaseEffect(r)
            /\ resp' = resp /\ sent' = sent
            /\ disk' = disk]_vars

\* C15 amended: as claimed, except that the second release leaves the file
\* system as the first left it only when the first release did not fail to
\* delete; after a swallowed failure the file is still there and the second
\* release may delete it.
C15_ReleaseIdempotentUnlessFailed ==
  [][\A r \in Reqs :
       /\ FirstRelease(r)
       /\ (pc[r] = "done" /\ pc'[r] = "released") =>
            /\ ReleaseEffect(r)
            /\ resp' = resp /\ sent' = sent
            /\ unlinkErrors[r] = 0 => disk' = disk]_vars

C15_Witness ==
  \E r \in Reqs :
    /\ pc[r] = "released"
    /\ cleanups[r] = 2
    /\ unlinkErrors[r] = 1
    /\ resp[r].status = 200
    /\ disk[file[r]] = Absent

AssessmentFields ==
  {"strengths", "areasToImprove", "perfectDefinition", "encouragement", "score"}

\* a decoded value has the fields of an Assessment
HasAssessmentShape(a) ==
  /\ DOMAIN a = AssessmentFields
  /\ DOMAIN a.score = {"content", "clarity", "completeness", "total"}

\* the evaluation of r returned text that decodes as JSON
DecodedValue(r) == JSONparse(evaluationResponse[r].choices[1].content)

GotDecodableJson(r) ==
  /\ pc[r] = "done"
  /\ resp[r].status = 200
  /\ "choices" \in DOMAIN evaluationResponse[r]
  /\ Len(evaluationResponse[r].choices) > 0
  /\ DecodedValue(r).ok

\* C16: when the evaluation returns valid JSON that does not have the
\* Assessment shape, the response carries the fixed fallback Assessment and
\* not the decoded value.
C16_WrongShapeGivesFallback ==
  \A r \in Reqs :
    (GotDecodableJson(r) /\ ~HasAssessmentShape(DecodedValue(r).value)) =>
      /\ resp[r].assessment = FallbackEvaluation
      /\ resp[r].assessment # DecodedValue(r).value

\* an Assessment of the data model: five fields, 2 to 4 strengths and areas,
\* marks in 0..5, total their sum
WellFormedAssessment(a) ==
  /\ HasAssessmentShape(a)
  /\ Len(a.strengths) \in 2..4
  /\ Len(a.areasToImprove) \in 2..4
  /\ a.score.content \in 0..5
  /\ a.score.clarity \in 0..5
  /\ a.score.completeness \in 0..5
  /\ a.score.total = a.score.content + a.score.clarity + a.score.completeness

\* C17: the fallback Assessment that a response carries is a well-formed
\* Assessment of the data model.
C17_FallbackWellFormed ==
  \A r \in Reqs :
    (pc[r] = "done" /\ resp[r].status = 200
       /\ resp[r].assessment = FallbackEvaluation) =>
      WellFormedAssessment(resp[r].assessment)

\* C18: the error field of a 500 response of the handler is the category of
\* the first test that the caught error's message passes, in the order
\* "ECONNRESET", "API key", "rate limit", else the generic one; a message
\* matching several patterns gets the earliest category; details is the
\* caught error's message.
C18_FirstMatchingCategory ==
  \A r \in Reqs :
    pc[r] = "done" =>
      LET m == ret[r].value
          net == Includes(m, "ECONNRESET")
          key == Includes(m, "API key")
          rate == Includes(m, "rate limit")
      IN  /\ resp[r].status = 500
          /\ DOMAIN resp[r] = {"status", "error", "details"}
          /\ resp[r].details = m
          /\ net =>
               resp[r].error = "Network connection issue. Please check your internet connection and try again."
          /\ (~net /\ key) =>
               resp[r].error = "OpenAI API key issue. Please check your configuration."
          /\ (~net /\ ~key /\ rate) =>
               resp[r].error = "OpenAI rate limit exceeded. Please wait a moment and try again."
          /\ (~net /\ ~key /\ ~rate) =>
               resp[r].error = "Failed to assess audio"

C18_Witness ==
  \E r \in Reqs :
    /\ pc[r] = "done"
    /\ Includes(resp[r].details, "rate limit")
    /\ Includes(resp[r].details, "API key")
    /\ Includes(resp[r].details, "ECONNRESET")
    /\ resp[r].error = "Network connection issue. Please check your internet connection and try again."

\* the request of r carries a file whose media type is not an audio type
NonAudioUpload(r) ==
  /\ pc[r] \notin {"idle", "closed"}
  /\ req[r].upload.present
  /\ ~StartsWith(req[r].upload.mimetype, "audio/")

\* C19: an upload whose declared media type does not start with "audio/" is
\* rejected by the upload layer: nothing is stored for it, the handler is
\* never entered, no external capability is invoked, and the client receives
\* an error response (500 from the error middleware, with the filter's
\* message).
C19_NonAudioRejected ==
  \A r \in Reqs :
    NonAudioUpload(r) =>
      /\ StoppedBeforeHandler(r)
      /\ pc[r] \in {"received", "done"}
      /\ pc[r] = "done" =>
           /\ resp[r].status = 500
           /\ resp[r].error = "Internal server error"
           /\ resp[r].message = "Only audio files are allowed!"

C19_Witness ==
  \E r \in Reqs :
    /\ NonAudioUpload(r)
    /\ req[r].upload.size <= MaxFileSize
    /\ ~QuestionMissing(req[r].question)
    /\ pc[r] = "done"
    /\ resp[r].status = 500
    /\ sent[r] = 1

\* C20: when every external call eventually settles and every backoff
\* elapses, a request that enters the handler is eventually answered, exactly
\* once; and an error thrown out of a step of the pipeline is always answered
\* with status 500.
C20_HandlerTerminates ==
  \A r \in Reqs :
    /\ HandlerEntered(r) ~> (pc[r] = "done" /\ sent[r] = 1)
    /\ [](sent[r] <= 1)
    /\ [](ret[r].kind = "threw" =>
            (pc[r] = "done" /\ sent[r] = 1 /\ resp[r].status = 500))

C20_Witness ==
  \E r \in Reqs :
    /\ pc[r] = "done" /\ sent[r] = 1
    /\ HandlerEntered(r)
    /\ ret[r].kind = "threw" /\ ret[r].op = "Evaluation"
    /\ resp[r].status = 500
    /\ trace[r] = <<"handler", "validated", "transcribe", "evaluate",
                    "cleanup", "respond">>

\* C21: a request that enters the handler is sent at most one response: a
\* response has been sent exactly when the request is finished, its status is
\* 200, 400 or 500, and once sent neither the response nor the count of
\* responses changes again, on any path through the handler.
C21_AtMostOneResponse ==
  /\ [](\A r \in Reqs :
          /\ sent[r] <= 1
          /\ sent[r] = 1 <=> pc[r] = "done"
          /\ sent[r] = 0 <=> resp[r] = NoResp
          /\ (HandlerEntered(r) /\ pc[r] = "done") =>
               resp[r].status \in {200, 400, 500})
  /\ [][\A r \in Reqs :
          sent[r] = 1 => (sent'[r] = 1 /\ resp'[r].status = resp[r].status)]_vars

C21_Witness ==
  \E r \in Reqs :
    /\ HandlerEntered(r)
    /\ sent[r] = 1
    /\ resp[r].status = 400
    /\ \E q \in Reqs :
         /\ HandlerEntered(q)
         /\ sent[q] = 1
         /\ resp[q].status = 200
         /\ cleanups[q] = 1 /\ unlinkErrors[q] = 1

\* the request of q was sent to the endpoint that hint names
SentTo(q, hint) ==
  /\ pc[q] # "idle"
  /\ req[q].route.method \o " " \o req[q].route.path = hint

\* C22: the availableEndpoint hint of a 404 body names a method and path the
\* server serves: a request sent there that the middleware lets through is
\* routed to the assessment handler or the upload layer in front of it, and
\* is not answered 404.
C22_HintIsServed ==
  \A r \in Reqs :
    (pc[r] = "done" /\ resp[r].status = 404) =>
      /\ resp[r].availableEndpoint
           = AssessmentRoute.method \o " " \o AssessmentRoute.path
      /\ \A q \in Reqs :
           ( /\ SentTo(q, resp[r].availableEndpoint)
             /\ PassesMiddleware(req[q])
             /\ pc[q] = "done" ) =>
             /\ resp[q].status # 404
             /\ req[q].route = AssessmentRoute

====
